---- MODULE Spec2Model ----
(***************************************************************************)
(* Production-mix optimisation service (prod-problem-ro/backend).          *)
(*                                                                         *)
(* The model follows one HTTP request through                              *)
(*   api/endpoints/production.py  (the three POST handlers)                *)
(*   core/factory.py              (OptimizerFactory.optimize)              *)
(*   core/validation.py           (input validator, solution verifier)     *)
(*   core/optimizers/*.py         (model builders, result assembler)       *)
(*                                                                         *)
(* Python dicts are functions whose DOMAIN is the set of keys present, so  *)
(* `k in d` is  k \in DOMAIN d.  A JSON bound that may be null is a        *)
(* sequence: <<>> is null (None) and <<n>> is the number n.                *)
(*                                                                         *)
(* Quantities are fixed-point integers in units of 5e-9, so that both      *)
(* tolerances of the code are whole numbers: 1e-8 is 2 and 1e-6 is 200.    *)
(* The LP engine (gurobipy) is outside the repository: its outcome is a    *)
(* nondeterministic choice of a status and of variable values.             *)
(***************************************************************************)
EXTENDS Integers, Sequences, FiniteSets, TLC

VARIABLES
    \* one request to the production service
    endpoint,        \* which POST handler serves the request
    optimizer_type,  \* identifier handed to OptimizerFactory.optimize
    data,            \* request.json, the decoded body
    pc,              \* position of the request in the pipeline
    validation,      \* what validate_optimization_input did: [exc, valid, errors]
    steps,           \* pipeline calls made so far, in order
    built,           \* the LP handed to the engine: [vars, constrs, ...]
    engine,          \* what the engine did: [status, x, iis]
    result,          \* the envelope produced by solve() / optimize()
    verdict,         \* what validate_solution_feasibility returned
    response,        \* what the HTTP layer answered: [code, body]
    \* the factory, shared by all requests of the process
    registry,        \* OptimizerFactory._optimizers
    calls,           \* the concurrent calls of the factory: id -> [pc, ...]
    objects,         \* how many optimizer and model objects were created
    listings,        \* the lists handed out by list_available_optimizers
    package,         \* the modules found in the core.optimizers package
    \* the vehicle-routing application
    vrp_instance,    \* the inputs of the window: vehicles, depot, locations, ...
    solver_thread,   \* state of the VRPSolverThread of the window
    vrp_engine,      \* what the engine did for the routing model: [status, x]
    solution,        \* VRPSolver.solution
    window           \* what the window was told: [delivered, status_bar]

request_vars == <<endpoint, optimizer_type, data, pc, validation, steps, built,
                  engine, result, verdict, response>>

factory_vars == <<calls, objects, listings, package>>

vrp_vars == <<vrp_instance, solver_thread, vrp_engine, solution, window>>

vars == <<request_vars, registry, factory_vars, vrp_vars>>

-----------------------------------------------------------------------------
(* Bounds of the explored inputs *)

MaxProducts == 2
MaxResources == 1
MaxUsageRows == 2
MaxDemandRows == 1

-----------------------------------------------------------------------------
(* Dict helpers *)

EmptyDict == [k \in {} |-> k]

Has(d, k) == k \in DOMAIN d

\* d.get(k, default)
Get(d, k, default) == IF Has(d, k) THEN d[k] ELSE default

\* the dicts holding key k with a value of S, or not holding it
Opt(k, S) == {EmptyDict} \cup {k :> v : v \in S}

None == <<>>

IsNone(v) == v = None

Num(v) == v[1]

SeqsUpTo(S, n) == UNION {[1..m -> S] : m \in 0..n}

RECURSIVE Concat(_)
Concat(ss) == IF ss = <<>> THEN <<>> ELSE Head(ss) \o Concat(Tail(ss))

RECURSIVE SetToSeq(_)
SetToSeq(S) ==
    IF S = {} THEN <<>>
    ELSE LET m == CHOOSE a \in S : TRUE IN <<m>> \o SetToSeq(S \ {m})

Abs(n) == IF n < 0 THEN -n ELSE n

-----------------------------------------------------------------------------
(* core/validation.py: validate_optimization_input *)

\* A run of validator code: the errors it appended, and the exception that
\* ended it ("none" when it ran to its end).
Ok(errs) == [exc |-> "none", errors |-> errs]

Raise(kind) == [exc |-> kind, errors |-> <<>>]

\* run b after a; an exception in a skips b, and an exception loses the list
Then(a, b) ==
    IF a.exc # "none" THEN a
    ELSE IF b.exc # "none" THEN b
    ELSE Ok(a.errors \o b.errors)

RECURSIVE ThenAll(_)
ThenAll(rs) ==
    IF rs = <<>> THEN Ok(<<>>)
    ELSE IF Head(rs).exc # "none" THEN Head(rs)
    ELSE Then(Head(rs), ThenAll(Tail(rs)))

required_fields == <<"objective", "products", "resources", "resource_usage">>

MissingFieldErrors(d) ==
    Concat([i \in 1..Len(required_fields) |->
        IF Has(d, required_fields[i])
        THEN <<>>
        ELSE << <<"Missing required field", required_fields[i]>> >>])

ObjectiveErrors(d) ==
    IF d.objective \notin {"maximize_profit", "minimize_cost"}
    THEN << <<"Objective must be either 'maximize_profit' or 'minimize_cost'">> >>
    ELSE <<>>

NonNegativeFieldErrors(row, field, what) ==
    IF ~Has(row, field) THEN << <<what, row.name, "is missing", field>> >>
    ELSE IF row[field] < 0 THEN << <<what, row.name, "has negative", field>> >>
    ELSE <<>>

ProductRowErrors(product) ==
    IF ~Has(product, "name") THEN << <<"Each product must have a name">> >>
    ELSE NonNegativeFieldErrors(product, "profit_per_unit", "Product")
         \o NonNegativeFieldErrors(product, "cost_per_unit", "Product")

ResourceRowErrors(resource) ==
    IF ~Has(resource, "name") THEN << <<"Each resource must have a name">> >>
    ELSE NonNegativeFieldErrors(resource, "available_capacity", "Resource")

\* the set built by `names.add(row['name'])` over the rows that have a name
NamesOf(rows) == {rows[i].name : i \in {j \in 1..Len(rows) : Has(rows[j], "name")}}

ReferenceErrors(row, field, known, missing, unknown) ==
    IF ~Has(row, field) THEN << <<missing, field>> >>
    ELSE IF row[field] \notin known THEN << <<unknown, row[field]>> >>
    ELSE <<>>

\* the f-string of a negative value reads row['product_name'] (and, for a
\* usage row, row['resource_name']): KeyError when the key is absent
NegativeMessage(row, fields, what) ==
    IF \E f \in fields : ~Has(row, f) THEN Raise("KeyError")
    ELSE Ok(<< <<what, row.product_name>> >>)

UsageValueCheck(ru) ==
    IF ~Has(ru, "usage_per_unit")
    THEN Ok(<< <<"Resource usage is missing usage_per_unit",
                 Get(ru, "product_name", "unknown"),
                 Get(ru, "resource_name", "unknown")>> >>)
    ELSE IF ru.usage_per_unit < 0
    THEN NegativeMessage(ru, {"product_name", "resource_name"},
                         "Resource usage has negative usage_per_unit")
    ELSE Ok(<<>>)

UsageRowCheck(ru, product_names, resource_names) ==
    Then(Ok(ReferenceErrors(ru, "product_name", product_names,
                "Each resource usage entry must specify",
                "Resource usage references unknown product")
            \o ReferenceErrors(ru, "resource_name", resource_names,
                "Each resource usage entry must specify",
                "Resource usage references unknown resource")),
         UsageValueCheck(ru))

\* any(ru['product_name'] == product_name for ru in rows): the generator
\* reads ru['product_name'] of each row until one matches
RECURSIVE AnyUsageOf(_, _)
AnyUsageOf(rows, product_name) ==
    IF rows = <<>> THEN "no"
    ELSE IF ~Has(Head(rows), "product_name") THEN "KeyError"
    ELSE IF Head(rows).product_name = product_name THEN "yes"
    ELSE AnyUsageOf(Tail(rows), product_name)

\* The loop runs over a Python set, whose order is not fixed by the code;
\* one order is taken here.  Only the order of these errors depends on it.
CoverageCheck(rows, product_names) ==
    IF \E n \in product_names : AnyUsageOf(rows, n) = "KeyError"
    THEN Raise("KeyError")
    ELSE LET order == SetToSeq(product_names)
         IN Ok(Concat([i \in 1..Len(order) |->
                IF AnyUsageOf(rows, order[i]) = "no"
                THEN << <<"Product has no resource usage defined", order[i]>> >>
                ELSE <<>>]))

\* `'k' in dc and dc['k'] < 0`: None < 0 is a TypeError
DemandBoundCheck(dc, k) ==
    IF ~Has(dc, k) THEN Ok(<<>>)
    ELSE IF IsNone(dc[k]) THEN Raise("TypeError")
    ELSE IF Num(dc[k]) < 0
    THEN NegativeMessage(dc, {"product_name"},
            IF k = "min_demand" THEN "Product has negative min_demand"
            ELSE "Product has negative max_demand")
    ELSE Ok(<<>>)

DemandOrderCheck(dc) ==
    IF ~(Has(dc, "min_demand") /\ Has(dc, "max_demand")) THEN Ok(<<>>)
    ELSE IF IsNone(dc.min_demand) \/ IsNone(dc.max_demand) THEN Raise("TypeError")
    ELSE IF Num(dc.min_demand) > Num(dc.max_demand)
    THEN NegativeMessage(dc, {"product_name"},
                         "Product has min_demand greater than max_demand")
    ELSE Ok(<<>>)

DemandRowCheck(dc, product_names) ==
    ThenAll(<<Ok(ReferenceErrors(dc, "product_name", product_names,
                    "Each demand constraint must specify",
                    "Demand constraint references unknown product")),
              DemandBoundCheck(dc, "min_demand"),
              DemandBoundCheck(dc, "max_demand"),
              DemandOrderCheck(dc)>>)

\* `'k' in tc and tc['k'] is not None`
Given(tc, k) == Has(tc, k) /\ ~IsNone(tc[k])

\* `'total_constraints' in data and data['total_constraints']`
HasTotals(d) == Has(d, "total_constraints") /\ d.total_constraints # EmptyDict

TotalErrors(tc) ==
    (IF Given(tc, "min_total") /\ Num(tc.min_total) < 0
     THEN << <<"Total constraints has negative min_total">> >> ELSE <<>>)
    \o (IF Given(tc, "max_total") /\ Num(tc.max_total) < 0
        THEN << <<"Total constraints has negative max_total">> >> ELSE <<>>)
    \o (IF Given(tc, "min_total") /\ Given(tc, "max_total")
           /\ Num(tc.min_total) > Num(tc.max_total)
        THEN << <<"Total constraints has min_total greater than max_total">> >>
        ELSE <<>>)

ValidateBody(d) ==
    LET product_names == NamesOf(d.products)
        resource_names == NamesOf(d.resources)
    IN ThenAll(<<
        Ok(ObjectiveErrors(d)),
        Ok(Concat([i \in 1..Len(d.products) |-> ProductRowErrors(d.products[i])])),
        Ok(Concat([i \in 1..Len(d.resources) |-> ResourceRowErrors(d.resources[i])])),
        ThenAll([i \in 1..Len(d.resource_usage) |->
            UsageRowCheck(d.resource_usage[i], product_names, resource_names)]),
        CoverageCheck(d.resource_usage, product_names),
        IF Has(d, "demand_constraints")
        THEN ThenAll([i \in 1..Len(d.demand_constraints) |->
                DemandRowCheck(d.demand_constraints[i], product_names)])
        ELSE Ok(<<>>),
        IF HasTotals(d) THEN Ok(TotalErrors(d.total_constraints)) ELSE Ok(<<>>)>>)

\* [exc, valid, errors]: the pair returned, or the exception raised
validate_optimization_input(d) ==
    IF MissingFieldErrors(d) # <<>>
    THEN [exc |-> "none", valid |-> FALSE, errors |-> MissingFieldErrors(d)]
    ELSE LET run == ValidateBody(d)
         IN [exc |-> run.exc,
             valid |-> run.exc = "none" /\ run.errors = <<>>,
             errors |-> run.errors]

-----------------------------------------------------------------------------
(* core/optimizers/base.py: the data extracted from a validated body *)

Range(f) == {f[i] : i \in DOMAIN f}

\* the keys of {row[field]: ... for row in rows}, in insertion order
RECURSIVE KeyOrder(_, _)
KeyOrder(rows, field) ==
    IF rows = <<>> THEN <<>>
    ELSE LET before == KeyOrder(SubSeq(rows, 1, Len(rows) - 1), field)
             key == rows[Len(rows)][field]
         IN IF key \in Range(before) THEN before ELSE Append(before, key)

\* the value of {row[field]: row for row in rows}[key]: the last row wins
LastRow(rows, field, key) ==
    rows[CHOOSE i \in 1..Len(rows) :
            /\ rows[i][field] = key
            /\ \A j \in (i + 1)..Len(rows) : rows[j][field] # key]

RowDict(rows, field) ==
    [key \in Range(KeyOrder(rows, field)) |-> LastRow(rows, field, key)]

\* resource_usage[product_name][resource_name] = usage_per_unit, last row wins
UsageDict(rows) ==
    [p \in Range(KeyOrder(rows, "product_name")) |->
        LET mine == SelectSeq(rows, LAMBDA ru : ru.product_name = p)
        IN [r \in Range(KeyOrder(mine, "resource_name")) |->
                LastRow(mine, "resource_name", r).usage_per_unit]]

extract_common_data(d) ==
    [objective_type |-> d.objective,
     products |-> RowDict(d.products, "name"),
     product_order |-> KeyOrder(d.products, "name"),
     resources |-> RowDict(d.resources, "name"),
     resource_order |-> KeyOrder(d.resources, "name"),
     resource_usage |-> UsageDict(d.resource_usage)]

\* usage of resource r per unit of product p, 0 for a pair without a row
UsageOf(resource_usage, p, r) ==
    IF Has(resource_usage, p) /\ Has(resource_usage[p], r)
    THEN resource_usage[p][r] ELSE 0

\* sum of f[k] over the keys k of S
RECURSIVE SumOver(_, _)
SumOver(S, f) ==
    IF S = {} THEN 0
    ELSE LET k == CHOOSE a \in S : TRUE IN f[k] + SumOver(S \ {k}, f)

-----------------------------------------------------------------------------
(* core/optimizers: the LP model built for the engine *)

Infinity == None

\* a slip: the variables capped at a fixed quantity
create_capped_production_variables(products) ==
    [p \in DOMAIN products |-> [lb |-> 0, ub |-> <<400>>]]

\* basic_production.py: _create_production_variables
create_production_variables(products) ==
    [p \in DOMAIN products |-> [lb |-> 0, ub |-> Infinity]]

VariableLb(constraint) ==
    IF Has(constraint, "min_demand") /\ ~IsNone(constraint.min_demand)
    THEN (IF Num(constraint.min_demand) > 0 THEN Num(constraint.min_demand) ELSE 0)
    ELSE 0

\* a slip: the upper bound taken as given
VariableUbAsGiven(constraint, lb) ==
    IF Has(constraint, "max_demand") /\ ~IsNone(constraint.max_demand)
    THEN constraint.max_demand
    ELSE Infinity

VariableUb(constraint, lb) ==
    IF Has(constraint, "max_demand") /\ ~IsNone(constraint.max_demand)
    THEN (IF lb > Num(constraint.max_demand) THEN <<lb>> ELSE constraint.max_demand)
    ELSE Infinity

\* demand_production.py: _create_production_variables_with_demand
create_production_variables_with_demand(products, demand_constraints) ==
    [p \in DOMAIN products |->
        IF Has(demand_constraints, p)
        THEN [lb |-> VariableLb(demand_constraints[p]),
              ub |-> VariableUb(demand_constraints[p], VariableLb(demand_constraints[p]))]
        ELSE [lb |-> 0, ub |-> Infinity]]

\* base.py: _set_objective
set_objective(objective_type, products) ==
    IF objective_type = "maximize_profit"
    THEN [sense |-> "MAXIMIZE", coef |-> [p \in DOMAIN products |-> products[p].profit_per_unit]]
    ELSE [sense |-> "MINIMIZE", coef |-> [p \in DOMAIN products |-> products[p].cost_per_unit]]

\* base.py: _add_resource_constraints
add_resource_constraints(c) ==
    [i \in 1..Len(c.resource_order) |->
        LET r == c.resource_order[i]
        IN [name |-> "resource_" \o r,
            coef |-> [p \in DOMAIN c.products |-> UsageOf(c.resource_usage, p, r)],
            sense |-> "<=",
            rhs |-> c.resources[r].available_capacity]]

\* a slip: the bound added whenever it is given
TotalConstraintGiven(total_constraints, k) ==
    Given(total_constraints, k)

TotalConstraintAdded(total_constraints, k) ==
    Given(total_constraints, k) /\ Num(total_constraints[k]) > 0

\* base.py: _add_total_product_constraints
add_total_product_constraints(products, total_constraints) ==
    IF total_constraints = EmptyDict THEN <<>>
    ELSE (IF TotalConstraintAdded(total_constraints, "min_total")
          THEN <<[name |-> "min_total_production",
                  coef |-> [p \in DOMAIN products |-> 1],
                  sense |-> ">=",
                  rhs |-> Num(total_constraints.min_total)]>>
          ELSE <<>>)
         \o (IF TotalConstraintAdded(total_constraints, "max_total")
             THEN <<[name |-> "max_total_production",
                     coef |-> [p \in DOMAIN products |-> 1],
                     sense |-> "<=",
                     rhs |-> Num(total_constraints.max_total)]>>
             ELSE <<>>)

DemandDict(d) ==
    IF Has(d, "demand_constraints") THEN RowDict(d.demand_constraints, "product_name")
    ELSE EmptyDict

\* BasicProductionOptimizer.solve / DemandConstrainedOptimizer.solve, up to
\* model.optimize()
BuildModel(class, d) ==
    LET c == extract_common_data(d)
    IN [order |-> c.product_order,
        vars |-> IF class = "DemandConstrainedOptimizer"
                 THEN create_production_variables_with_demand(c.products, DemandDict(d))
                 ELSE create_production_variables(c.products),
        objective |-> set_objective(c.objective_type, c.products),
        constrs |-> add_resource_constraints(c)
                    \o (IF HasTotals(d)
                        THEN add_total_product_constraints(c.products, d.total_constraints)
                        ELSE <<>>)]

Lhs(constr, x) == SumOver(DOMAIN x, [p \in DOMAIN x |-> constr.coef[p] * x[p]])

\* x is a solution of the built model
SatisfiesModel(m, x) ==
    /\ \A p \in DOMAIN m.vars :
          /\ m.vars[p].lb <= x[p]
          /\ m.vars[p].ub # Infinity => x[p] <= Num(m.vars[p].ub)
    /\ \A i \in 1..Len(m.constrs) :
          IF m.constrs[i].sense = "<=" THEN Lhs(m.constrs[i], x) <= m.constrs[i].rhs
          ELSE Lhs(m.constrs[i], x) >= m.constrs[i].rhs

ConstrNames(m) == {m.constrs[i].name : i \in 1..Len(m.constrs)}

-----------------------------------------------------------------------------
(* core/optimizers/base.py: _prepare_result, the result assembler *)

\* 1e-8, in units of 5e-9
ClampEpsilon == 2

\* production_plan: values with abs(value) < 1e-8 become 0.0
ClampedPlan(x) == [p \in DOMAIN x |-> IF Abs(x[p]) < ClampEpsilon THEN 0 ELSE x[p]]

\* _calculate_total_production: the sum of var.x
calculate_total_production(x) == SumOver(DOMAIN x, x)

\* _get_resource_utilization; utilization_pct is the fraction <<num, den>>
get_resource_utilization(c, x) ==
    [r \in DOMAIN c.resources |->
        LET available == c.resources[r].available_capacity
            used == SumOver({p \in DOMAIN c.resource_usage :
                                Has(c.resource_usage[p], r) /\ Has(x, p)},
                            [p \in DOMAIN c.resource_usage |->
                                UsageOf(c.resource_usage, p, r) * Get(x, p, 0)])
        IN [used |-> used,
            available |-> available,
            utilization_pct |-> IF available > 0 THEN <<used * 100, available>>
                                ELSE <<0, 1>>]]

\* the names flagged c.IISConstr, in the order of model.getConstrs()
InfeasibleConstraints(m, iis) ==
    LET names == [i \in 1..Len(m.constrs) |-> m.constrs[i].name]
        flagged == SelectSeq(names, LAMBDA n : n \in iis)
    IN IF flagged # <<>> THEN [names |-> flagged] ELSE [sentinel |-> "Unknown"]

\* a slip: the text stored under another key
ErrorEnvelopeUnderMessage(message) == [status |-> "error", message |-> message]

ErrorEnvelope(message) == [status |-> "error", solver_message |-> message]

prepare_result(m, e, c) ==
    CASE e.status = "OPTIMAL" ->
            [status |-> "optimal",
             objective_value |-> Lhs(m.objective, e.x),
             production_plan |-> ClampedPlan(e.x),
             resource_utilization |-> get_resource_utilization(c, e.x),
             total_production |-> calculate_total_production(e.x),
             solver_message |-> "Optimal solution found"]
      [] e.status = "INFEASIBLE" ->
            IF e.iis_raises
            THEN ErrorEnvelope("computeIIS failed")
            ELSE [status |-> "infeasible",
                  solver_message |-> "The model is infeasible",
                  infeasible_constraints |-> InfeasibleConstraints(m, e.iis)]
      [] e.status = "UNBOUNDED" ->
            [status |-> "unbounded",
             solver_message |-> "The model is unbounded (no finite optimal solution exists)"]
      [] OTHER -> ErrorEnvelope("Optimization status: " \o e.status)

-----------------------------------------------------------------------------
(* core/validation.py: validate_solution_feasibility, the verifier *)

\* 1e-6, in units of 5e-9
epsilon == 200

SmallQuantityWarnings(order, plan) ==
    Concat([i \in 1..Len(order) |->
        IF 0 < plan[order[i]] /\ plan[order[i]] < epsilon
        THEN << <<"very small production quantity", order[i]>> >> ELSE <<>>])

\* calculated_usage[r]: recomputed from the reported plan
CalculatedUsage(c, plan, r) ==
    SumOver({p \in DOMAIN plan : Has(c.resource_usage, p) /\ Has(c.resource_usage[p], r)},
            [p \in DOMAIN plan |-> UsageOf(c.resource_usage, p, r) * plan[p]])

\* a slip: the capacity compared without the tolerance
ResourceWarningsWithoutTolerance(c, res) ==
    Concat([i \in 1..Len(c.resource_order) |->
        LET r == c.resource_order[i]
            usage == CalculatedUsage(c, res.production_plan, r)
        IN (IF Has(res.resource_utilization, r)
               /\ Abs(usage - res.resource_utilization[r].used) > epsilon
            THEN << <<"calculated usage differs from reported usage", r>> >>
            ELSE <<>>)
           \o (IF usage > c.resources[r].available_capacity
               THEN << <<"usage exceeds available capacity", r>> >>
               ELSE <<>>)])

ResourceWarnings(c, res) ==
    Concat([i \in 1..Len(c.resource_order) |->
        LET r == c.resource_order[i]
            usage == CalculatedUsage(c, res.production_plan, r)
        IN (IF Has(res.resource_utilization, r)
               /\ Abs(usage - res.resource_utilization[r].used) > epsilon
            THEN << <<"calculated usage differs from reported usage", r>> >>
            ELSE <<>>)
           \o (IF usage > c.resources[r].available_capacity + epsilon
               THEN << <<"usage exceeds available capacity", r>> >>
               ELSE <<>>)])

DemandWarnings(d, order, plan) ==
    IF ~Has(d, "demand_constraints") THEN <<>>
    ELSE LET demand_constraints == RowDict(d.demand_constraints, "product_name")
         IN Concat([i \in 1..Len(order) |->
              LET p == order[i] IN
              IF ~Has(demand_constraints, p) THEN <<>>
              ELSE LET dc == demand_constraints[p]
                   IN (IF Has(dc, "min_demand") /\ plan[p] < Num(dc.min_demand) - epsilon
                       THEN << <<"violates minimum demand constraint", p>> >>
                       ELSE <<>>)
                      \o (IF Has(dc, "max_demand") /\ plan[p] > Num(dc.max_demand) + epsilon
                          THEN << <<"violates maximum demand constraint", p>> >>
                          ELSE <<>>)])

TotalWarnings(d, plan) ==
    IF ~HasTotals(d) THEN <<>>
    ELSE LET tc == d.total_constraints
             total_production == SumOver(DOMAIN plan, plan)
         IN (IF Given(tc, "min_total") /\ total_production < Num(tc.min_total) - epsilon
             THEN << <<"violates minimum total constraint">> >> ELSE <<>>)
            \o (IF Given(tc, "max_total") /\ total_production > Num(tc.max_total) + epsilon
                THEN << <<"violates maximum total constraint">> >> ELSE <<>>)

FeasibilityWarnings(res, d) ==
    LET c == extract_common_data(d)
    IN SmallQuantityWarnings(c.product_order, res.production_plan)
       \o ResourceWarnings(c, res)
       \o DemandWarnings(d, c.product_order, res.production_plan)
       \o TotalWarnings(d, res.production_plan)

\* [is_feasible, warnings]
validate_solution_feasibility(res, d) ==
    IF res.status # "optimal"
    THEN [is_feasible |-> FALSE, warnings |-> << <<"Solution is not optimal">> >>]
    ELSE [is_feasible |-> FeasibilityWarnings(res, d) = <<>>,
          warnings |-> FeasibilityWarnings(res, d)]

\* factory.py: optimize, the lines after optimizer.solve(data)
AfterVerification(res, v) ==
    IF ~v.is_feasible
    THEN ("status" :> "solution_warning") @@ ("feasibility_warnings" :> v.warnings) @@ res
    ELSE IF v.warnings # <<>>
    THEN ("feasibility_warnings" :> v.warnings) @@ res
    ELSE res

-----------------------------------------------------------------------------
(* The requests explored *)

ProductNames == {"A", "B"}

ResourceNames == {"R", "S"}

\* 400 is 2e-6, 300 a usage coefficient large enough for a clamped quantity
\* (below 1e-8) to move a resource's usage by more than 1e-6
Prices == {-1, 1}

Capacities == {-1, 0, 400}

Usages == {-1, 1, 300}

DemandBounds == {None, <<-1>>, <<3>>, <<400>>}

TotalBounds == {None, <<-1>>, <<0>>, <<400>>}

ProductRows ==
    {a @@ b @@ c : a \in Opt("name", ProductNames),
                   b \in Opt("profit_per_unit", Prices),
                   c \in Opt("cost_per_unit", Prices)}

ResourceRows ==
    {a @@ b : a \in Opt("name", ResourceNames),
              b \in Opt("available_capacity", Capacities)}

UsageRows ==
    {a @@ b @@ c : a \in Opt("product_name", ProductNames),
                   b \in Opt("resource_name", ResourceNames),
                   c \in Opt("usage_per_unit", Usages)}

DemandRows ==
    {a @@ b @@ c : a \in Opt("product_name", ProductNames),
                   b \in Opt("min_demand", DemandBounds),
                   c \in Opt("max_demand", DemandBounds)}

TotalDicts ==
    {a @@ b : a \in Opt("min_total", TotalBounds), b \in Opt("max_total", TotalBounds)}

\* every value a field of the body may take, the field being absent included
FieldValues(field) ==
    CASE field = "objective" ->
            Opt(field, {"maximize_profit", "minimize_cost", "maximize_cost"})
      [] field = "products" -> Opt(field, SeqsUpTo(ProductRows, MaxProducts))
      [] field = "resources" -> Opt(field, SeqsUpTo(ResourceRows, MaxResources))
      [] field = "resource_usage" -> Opt(field, SeqsUpTo(UsageRows, MaxUsageRows))
      [] field = "demand_constraints" -> Opt(field, SeqsUpTo(DemandRows, MaxDemandRows))
      [] field = "total_constraints" -> Opt(field, TotalDicts)

BodyFields ==
    {"objective", "products", "resources", "resource_usage",
     "demand_constraints", "total_constraints"}

\* a well-formed body over the first n product names
PlainBody(names) ==
    [objective |-> "maximize_profit",
     products |-> [i \in 1..Len(names) |->
        [name |-> names[i], profit_per_unit |-> 1, cost_per_unit |-> 1]],
     resources |-> <<[name |-> "R", available_capacity |-> 400]>>,
     resource_usage |-> [i \in 1..Len(names) |->
        [product_name |-> names[i], resource_name |-> "R", usage_per_unit |-> 1]]]

PlainBodies == {PlainBody(<<"A">>), PlainBody(<<"A", "B">>)}

Without(d, field) == [k \in DOMAIN d \ {field} |-> d[k]]

Endpoints == {"/optimize/<optimizer_type>", "/basic-optimization", "/demand-constrained"}

\* the identifiers a client may put in the path; "genetic" is not registered
PathTypes == {"basic", "demand-constrained", "basic-production", "genetic"}

\* factory.py, module level: the two explicit registrations, then
\* discover_optimizers(), which registers each optimizer class under its
\* kebab-cased class name without the Optimizer suffix
RegistryAtStartup ==
    [t \in {"basic", "demand-constrained", "basic-production"} |->
        IF t = "demand-constrained" THEN "DemandConstrainedOptimizer"
        ELSE "BasicProductionOptimizer"]

\* the values the engine may report for a variable: 0, two values below 1e-6
\* (one of them below 1e-8), a capacity-sized one and a larger one
Quantities == {0, 1, 3, 400, 700}

\* engine statuses other than OPTIMAL, INFEASIBLE, UNBOUNDED
OtherStatuses == {"TIME_LIMIT"}

-----------------------------------------------------------------------------
(* One request *)

Blank == EmptyDict

Init ==
    /\ endpoint \in Endpoints
    /\ optimizer_type \in
         CASE endpoint = "/basic-optimization" -> {"basic"}
           [] endpoint = "/demand-constrained" -> {"demand-constrained"}
           [] OTHER -> PathTypes
    \* a body that differs from a well-formed one in at most one field,
    \* which takes any value of its domain
    /\ \E b \in PlainBodies, f \in BodyFields :
          \E v \in FieldValues(f) : data = v @@ Without(b, f)
    /\ pc = "received"
    /\ validation = Blank
    /\ steps = <<>>
    /\ built = Blank
    /\ engine = Blank
    /\ result = Blank
    /\ verdict = Blank
    /\ registry = RegistryAtStartup
    /\ response = Blank
    /\ calls = Blank /\ objects = 0 /\ listings = <<>> /\ package = {}
    /\ vrp_instance = Blank /\ solver_thread = Blank /\ vrp_engine = Blank
    /\ solution = Blank /\ window = Blank

\* the handler starts: data = request.json; OptimizerFactory.optimize(type, data)
Post ==
    /\ pc = "received"
    /\ pc' = "validating"
    /\ UNCHANGED <<endpoint, optimizer_type, data, validation, steps, built,
                   engine, result, verdict, registry, response>>
    /\ UNCHANGED <<factory_vars, vrp_vars>>

\* a slip: the envelope built without the validator's list
ValidationErrorEnvelopeWithoutErrors(errors) ==
    [status |-> "validation_error",
     solver_message |-> "Input validation failed",
     validation_errors |-> <<>>]

ValidationErrorEnvelope(errors) ==
    [status |-> "validation_error",
     solver_message |-> "Input validation failed",
     validation_errors |-> errors]

\* optimize() has `except ValueError` only: any other exception leaves it
Escapes(exc) == exc # "ValueError"

\* factory.py: optimize, up to the return of the validation_error envelope
Validate ==
    /\ pc = "validating"
    /\ LET v == validate_optimization_input(data)
       IN /\ validation' = v
          /\ steps' = Append(steps, "validate_optimization_input")
          /\ IF v.exc # "none"
             THEN IF Escapes(v.exc)
                  THEN pc' = "raised" /\ result' = result
                  ELSE pc' = "returned" /\ result' = ErrorEnvelope(v.exc)
             ELSE IF ~v.valid
             THEN pc' = "rejected" /\ result' = ValidationErrorEnvelope(v.errors)
             ELSE pc' = "lookup" /\ result' = result
    /\ UNCHANGED <<endpoint, optimizer_type, data, built, engine, verdict,
                   registry, response>>
    /\ UNCHANGED <<factory_vars, vrp_vars>>

\* factory.py: get_optimizer, called by optimize; its ValueError is caught there
GetOptimizer ==
    /\ pc = "lookup"
    /\ IF ~Has(registry, optimizer_type)
       THEN /\ steps' = Append(steps, "get_optimizer")
            /\ result' = ErrorEnvelope("Unknown optimizer type: " \o optimizer_type)
            /\ pc' = "returned"
       ELSE /\ steps' = steps \o <<"get_optimizer", registry[optimizer_type]>>
            /\ result' = result
            /\ pc' = "building"
    /\ UNCHANGED <<endpoint, optimizer_type, data, validation, built, engine,
                   verdict, registry, response>>
    /\ UNCHANGED <<factory_vars, vrp_vars>>

\* solve(): the model is created and filled; gurobipy may raise on the way
\* (no licence, size limit), which solve()'s `except Exception` turns into an
\* error envelope
Build ==
    /\ pc = "building"
    /\ \E raises \in BOOLEAN :
         IF raises
         THEN /\ built' = built
              /\ result' = ErrorEnvelope("GurobiError")
              /\ pc' = "returned"
         ELSE /\ built' = BuildModel(registry[optimizer_type], data)
              /\ result' = result
              /\ pc' = "solving"
    /\ steps' = Append(steps, "solve")
    /\ UNCHANGED <<endpoint, optimizer_type, data, validation, engine, verdict,
                   registry, response>>
    /\ UNCHANGED <<factory_vars, vrp_vars>>

\* what model.optimize() may leave behind, any plan included: the engine is
\* not part of the repository
EngineOutcomes(m) ==
    {[status |-> "OPTIMAL", x |-> x] : x \in [DOMAIN m.vars -> Quantities]}
    \cup {[status |-> "INFEASIBLE", iis |-> iis, iis_raises |-> FALSE] :
            iis \in SUBSET ConstrNames(m)}
    \cup {[status |-> "INFEASIBLE", iis |-> {}, iis_raises |-> TRUE]}
    \cup {[status |-> st] : st \in {"UNBOUNDED", "raised"} \cup OtherStatuses}

\* model.optimize()
Optimize ==
    /\ pc = "solving"
    /\ \E e \in EngineOutcomes(built) :
         /\ engine' = e
         /\ IF e.status = "raised"
            THEN result' = ErrorEnvelope("GurobiError") /\ pc' = "returned"
            ELSE result' = result /\ pc' = "assembling"
    /\ UNCHANGED <<endpoint, optimizer_type, data, validation, steps, built,
                   verdict, registry, response>>
    /\ UNCHANGED <<factory_vars, vrp_vars>>

\* a slip: the verifier called whatever the assembled status
PrepareResultThenVerify ==
    /\ pc = "assembling"
    /\ result' = prepare_result(built, engine, extract_common_data(data))
    /\ pc' = "verifying"
    /\ UNCHANGED <<endpoint, optimizer_type, data, validation, steps, built,
                   engine, verdict, registry, response>>
    /\ UNCHANGED <<factory_vars, vrp_vars>>

\* base.py: _prepare_result, and the return of solve() to optimize()
PrepareResult ==
    /\ pc = "assembling"
    /\ result' = prepare_result(built, engine, extract_common_data(data))
    /\ pc' = IF result'.status = "optimal" THEN "verifying" ELSE "returned"
    /\ UNCHANGED <<endpoint, optimizer_type, data, validation, steps, built,
                   engine, verdict, registry, response>>
    /\ UNCHANGED <<factory_vars, vrp_vars>>

\* factory.py: optimize, `if result['status'] == 'optimal':`
Verify ==
    /\ pc = "verifying"
    /\ verdict' = validate_solution_feasibility(result, data)
    /\ result' = AfterVerification(result, verdict')
    /\ steps' = Append(steps, "validate_solution_feasibility")
    /\ pc' = "returned"
    /\ UNCHANGED <<endpoint, optimizer_type, data, validation, built, engine,
                   registry, response>>
    /\ UNCHANGED <<factory_vars, vrp_vars>>

\* only ProductionOptimization.post wraps its body in try/except Exception
CatchesExceptions(ep) == ep = "/optimize/<optimizer_type>"

\* a slip: every status but optimal answered as a client error
StatusCodeOnlyOptimalIsSuccess(res) == IF res.status = "optimal" THEN 200 ELSE 400

\* the code a handler returns beside the envelope (a bare `return result` is 200)
StatusCode(res) == IF res.status = "validation_error" THEN 400 ELSE 200

\* api/endpoints/production.py: what the handler answers.  An exception that
\* no handler catches is answered by the web framework, not by this code.
HttpResponse(ep, raised, exc, res) ==
    IF raised
    THEN IF CatchesExceptions(ep)
         THEN [code |-> 500, body |-> ErrorEnvelope(exc)]
         ELSE [code |-> 500, body |-> [message |-> "Internal Server Error"]]
    ELSE [code |-> StatusCode(res), body |-> res]

\* a slip: an exception that leaves the handler is never answered
RespondUnlessRaised ==
    /\ pc \in {"rejected", "returned"}
    /\ response' = HttpResponse(endpoint, FALSE, validation.exc, result)
    /\ pc' = "responded"
    /\ UNCHANGED <<endpoint, optimizer_type, data, validation, steps, built,
                   engine, result, verdict, registry>>
    /\ UNCHANGED <<factory_vars, vrp_vars>>

Respond ==
    /\ pc \in {"rejected", "returned", "raised"}
    /\ response' = HttpResponse(endpoint, pc = "raised", validation.exc, result)
    /\ pc' = "responded"
    /\ UNCHANGED <<endpoint, optimizer_type, data, validation, steps, built,
                   engine, result, verdict, registry>>
    /\ UNCHANGED <<factory_vars, vrp_vars>>

Next ==
    \/ Post
    \/ Validate
    \/ GetOptimizer
    \/ Build
    \/ Optimize
    \/ PrepareResult
    \/ Verify
    \/ Respond

Spec == Init /\ [][Next]_vars

-----------------------------------------------------------------------------
(* DemandConstrainedOptimizer.solve on any body, up to the variables *)

DemandVariablesInit ==
    /\ \E b \in PlainBodies : \E rows \in SeqsUpTo(DemandRows, MaxDemandRows) :
          data = ("demand_constraints" :> rows) @@ b
    /\ pc = "extracting"
    /\ built = Blank
    /\ endpoint = Blank /\ optimizer_type = Blank /\ validation = Blank
    /\ steps = <<>> /\ engine = Blank /\ result = Blank /\ verdict = Blank
    /\ response = Blank
    /\ registry = RegistryAtStartup
    /\ calls = Blank /\ objects = 0 /\ listings = <<>> /\ package = {}
    /\ vrp_instance = Blank /\ solver_thread = Blank /\ vrp_engine = Blank
    /\ solution = Blank /\ window = Blank

\* d['product_name'] of a row without the key raises KeyError, which solve()
\* turns into an error envelope
CreateVariables ==
    /\ pc = "extracting"
    /\ IF \E i \in 1..Len(data.demand_constraints) :
             ~Has(data.demand_constraints[i], "product_name")
       THEN /\ built' = built
            /\ result' = ErrorEnvelope("KeyError")
            /\ pc' = "returned"
       ELSE /\ built' = [vars |-> create_production_variables_with_demand(
                                     RowDict(data.products, "name"), DemandDict(data))]
            /\ result' = result
            /\ pc' = "created"
    /\ UNCHANGED <<endpoint, optimizer_type, data, validation, steps, engine,
                   verdict, response, registry, factory_vars, vrp_vars>>

DemandVariablesNext == CreateVariables

DemandVariablesSpec == DemandVariablesInit /\ [][DemandVariablesNext]_vars

-----------------------------------------------------------------------------
(* core/factory.py: the registry at import time *)

\* str.lower() on the capitals of the class names
Lower ==
    ("A" :> "a") @@ ("B" :> "b") @@ ("C" :> "c") @@ ("D" :> "d")
    @@ ("G" :> "g") @@ ("H" :> "h") @@ ("L" :> "l") @@ ("M" :> "m")
    @@ ("O" :> "o") @@ ("P" :> "p") @@ ("R" :> "r")

isupper(c) == c \in DOMAIN Lower

RECURSIVE Join(_)
Join(chars) == IF chars = <<>> THEN "" ELSE Head(chars) \o Join(Tail(chars))

RECURSIVE lstrip(_, _)
lstrip(chars, c) ==
    IF chars # <<>> /\ Head(chars) = c THEN lstrip(Tail(chars), c) ELSE chars

OptimizerSuffix == <<"O", "p", "t", "i", "m", "i", "z", "e", "r">>

endswith(s, suffix) ==
    /\ Len(s) >= Len(suffix)
    /\ SubSeq(s, Len(s) - Len(suffix) + 1, Len(s)) = suffix

\* discover_optimizers: the identifier derived from a class name
KebabType(class_name) ==
    LET stripped == IF endswith(class_name, OptimizerSuffix)
                    THEN SubSeq(class_name, 1, Len(class_name) - 9)
                    ELSE class_name
    IN Join(lstrip(Concat([i \in 1..Len(stripped) |->
                IF isupper(stripped[i]) THEN <<"-", Lower[stripped[i]]>>
                ELSE <<stripped[i]>>]), "-"))

\* a class as inspect.getmembers sees it; builder: a subclass of
\* ProductionOptimizerBase other than the base class itself
Class(name, builder) == [name |-> name, builder |-> builder]

\* the classes that are members of a module of the package, imported ones
\* included, in the order of inspect.getmembers (by name)
Members(module) ==
    LET ABCName ==
            <<"A", "B", "C">>
        ProductionOptimizerBaseName ==
            <<"P", "r", "o", "d", "u", "c", "t", "i", "o", "n", "O", "p", "t", "i",
            "m", "i", "z", "e", "r", "B", "a", "s", "e">>
        BasicOptimizerName ==
            <<"B", "a", "s", "i", "c", "O", "p", "t", "i", "m", "i", "z", "e", "r">>
        BasicProductionOptimizerName ==
            <<"B", "a", "s", "i", "c", "P", "r", "o", "d", "u", "c", "t", "i", "o",
            "n", "O", "p", "t", "i", "m", "i", "z", "e", "r">>
        DemandConstrainedOptimizerName ==
            <<"D", "e", "m", "a", "n", "d", "C", "o", "n", "s", "t", "r", "a", "i",
            "n", "e", "d", "O", "p", "t", "i", "m", "i", "z", "e", "r">>
        GeneticOptimizerName ==
            <<"G", "e", "n", "e", "t", "i", "c", "O", "p", "t", "i", "m", "i", "z",
            "e", "r">>
        HeuristicName ==
            <<"H", "e", "u", "r", "i", "s", "t", "i", "c">>
        LPRelaxationOptimizerName ==
            <<"L", "P", "R", "e", "l", "a", "x", "a", "t", "i", "o", "n", "O", "p",
            "t", "i", "m", "i", "z", "e", "r">>
        ModelReportName ==
            <<"M", "o", "d", "e", "l", "R", "e", "p", "o", "r", "t">>
    IN CASE module = "base" ->
               <<Class(ABCName, FALSE), Class(ProductionOptimizerBaseName, FALSE)>>
         [] module = "basic" ->
               <<Class(BasicOptimizerName, TRUE), Class(ProductionOptimizerBaseName, FALSE)>>
         [] module = "basic_production" ->
               <<Class(BasicProductionOptimizerName, TRUE),
                 Class(ProductionOptimizerBaseName, FALSE)>>
         [] module = "demand_production" ->
               <<Class(BasicProductionOptimizerName, TRUE),
                 Class(DemandConstrainedOptimizerName, TRUE)>>
         [] module = "genetic" ->
               <<Class(GeneticOptimizerName, TRUE), Class(ProductionOptimizerBaseName, FALSE)>>
         [] module = "heuristic" ->
               <<Class(HeuristicName, TRUE), Class(ProductionOptimizerBaseName, FALSE)>>
         [] module = "lp_relaxation" ->
               <<Class(LPRelaxationOptimizerName, TRUE),
                 Class(ProductionOptimizerBaseName, FALSE)>>
         [] module = "report" -> <<Class(ModelReportName, FALSE)>>

\* the modules of core/optimizers in the repository
ShippedModules == {"base", "basic_production", "demand_production"}

\* modules a deployment may add to the package, which is what discovery is for
AddedModules == {"basic", "genetic", "heuristic", "lp_relaxation", "report"}

\* pkgutil.iter_modules yields the modules sorted by name
ModuleOrder ==
    <<"base", "basic", "basic_production", "demand_production", "genetic",
      "heuristic", "lp_relaxation", "report">>

\* cls._optimizers[optimizer_type] = optimizer_class
register_optimizer(reg, identifier, optimizer_class) ==
    (identifier :> optimizer_class) @@ reg

RECURSIVE RegisterFound(_, _)
RegisterFound(reg, classes) ==
    IF classes = <<>> THEN reg
    ELSE RegisterFound(
            IF Head(classes).builder
            THEN register_optimizer(reg, KebabType(Head(classes).name),
                                    Join(Head(classes).name))
            ELSE reg,
            Tail(classes))

\* the registry after discover_optimizers() over the modules present
discover_optimizers(reg, modules) ==
    RegisterFound(reg, Concat([i \in 1..Len(SelectSeq(ModuleOrder, LAMBDA m : m \in modules)) |->
                                  Members(SelectSeq(ModuleOrder, LAMBDA m : m \in modules)[i])]))

\* a slip: the dict itself handed out
list_available_optimizers_shared(reg) == [items |-> DOMAIN reg, of_registry |-> TRUE]

\* list(cls._optimizers.keys()): a new list holding the keys
list_available_optimizers(reg) == [items |-> DOMAIN reg, of_registry |-> FALSE]

StartupInit ==
    /\ registry = EmptyDict
    /\ package \in {ShippedModules \cup added : added \in SUBSET AddedModules}
    /\ pc = "importing"
    /\ calls = Blank /\ objects = 0 /\ listings = <<>>
    /\ endpoint = Blank /\ optimizer_type = Blank /\ data = Blank
    /\ validation = Blank /\ steps = <<>> /\ built = Blank /\ engine = Blank
    /\ result = Blank /\ verdict = Blank /\ response = Blank
    /\ vrp_instance = Blank /\ solver_thread = Blank /\ vrp_engine = Blank
    /\ solution = Blank /\ window = Blank

\* the frame of the start-up steps
StartupUnchanged ==
    UNCHANGED <<endpoint, optimizer_type, data, validation, steps, built, engine,
                result, verdict, response, calls, objects, package, vrp_vars>>

\* module level: the two explicit registrations
RegisterStandard ==
    /\ pc = "importing"
    /\ registry' = register_optimizer(
                       register_optimizer(registry, "basic", "BasicProductionOptimizer"),
                       "demand-constrained", "DemandConstrainedOptimizer")
    /\ pc' = "registered"
    /\ listings' = listings
    /\ StartupUnchanged

\* module level: OptimizerFactory.discover_optimizers()
Discover ==
    /\ pc = "registered"
    /\ registry' = discover_optimizers(registry, package)
    /\ pc' = "started"
    /\ listings' = listings
    /\ StartupUnchanged

\* GET /optimizers
ListOptimizers ==
    /\ pc = "started"
    /\ listings' = Append(listings, list_available_optimizers(registry))
    /\ pc' = "listed"
    /\ registry' = registry
    /\ StartupUnchanged

StartupNext ==
    \/ RegisterStandard
    \/ Discover
    \/ ListOptimizers

StartupSpec == StartupInit /\ [][StartupNext]_vars


-----------------------------------------------------------------------------
(* core/factory.py: the factory used by concurrent requests *)

MaxCalls == 2

CallIds == 1..MaxCalls

\* the entry points of OptimizerFactory a request thread may call
FactoryOps == {"optimize", "get_optimizer", "list_available_optimizers"}

\* a slip: one instance per class, kept and handed to every caller
InstantiateOnce(optimizer_class, count) == 0 - Len(optimizer_class)

\* optimizer_class(): a new object; objects are named by their number
Instantiate(optimizer_class, count) == count + 1

\* _create_model: gp.Model(self.model_name), a new object
create_model(count) == count + 1

FactoryInit ==
    /\ registry = RegistryAtStartup
    /\ calls \in [CallIds -> {[op |-> op, type |-> t, pc |-> "start",
                               optimizer |-> 0, model |-> 0] :
                                 op \in FactoryOps, t \in PathTypes}]
    /\ objects = 0
    /\ listings = <<>>
    /\ package = ShippedModules
    /\ endpoint = Blank /\ optimizer_type = Blank /\ data = Blank /\ pc = Blank
    /\ validation = Blank /\ steps = <<>> /\ built = Blank /\ engine = Blank
    /\ result = Blank /\ verdict = Blank /\ response = Blank
    /\ vrp_instance = Blank /\ solver_thread = Blank /\ vrp_engine = Blank
    /\ solution = Blank /\ window = Blank

\* optimize: the validator accepts or rejects the body of the call
CallValidate(c) ==
    /\ calls[c].op = "optimize" /\ calls[c].pc = "start"
    /\ \E valid \in BOOLEAN :
         calls' = [calls EXCEPT ![c].pc = IF valid THEN "validated" ELSE "done"]
    /\ UNCHANGED <<registry, objects, listings, package, request_vars, vrp_vars>>

\* get_optimizer, called directly or by optimize
CallGetOptimizer(c) ==
    /\ \/ calls[c].op = "optimize" /\ calls[c].pc = "validated"
       \/ calls[c].op = "get_optimizer" /\ calls[c].pc = "start"
    /\ IF ~Has(registry, calls[c].type)
       THEN /\ calls' = [calls EXCEPT ![c].pc = "failed"]
            /\ objects' = objects
       ELSE /\ calls' = [calls EXCEPT
                    ![c].optimizer = Instantiate(registry[calls[c].type], objects),
                    ![c].pc = IF calls[c].op = "optimize" THEN "instantiated" ELSE "done"]
            /\ objects' = objects + 1
    /\ UNCHANGED <<registry, listings, package, request_vars, vrp_vars>>

\* optimizer.solve: the model is created
CallCreateModel(c) ==
    /\ calls[c].pc = "instantiated"
    /\ calls' = [calls EXCEPT ![c].model = create_model(objects), ![c].pc = "modelled"]
    /\ objects' = objects + 1
    /\ UNCHANGED <<registry, listings, package, request_vars, vrp_vars>>

\* optimizer.solve: the model is filled and solved, optimize returns
CallSolve(c) ==
    /\ calls[c].pc = "modelled"
    /\ calls' = [calls EXCEPT ![c].pc = "done"]
    /\ UNCHANGED <<registry, objects, listings, package, request_vars, vrp_vars>>

CallListOptimizers(c) ==
    /\ calls[c].op = "list_available_optimizers" /\ calls[c].pc = "start"
    /\ listings' = Append(listings, list_available_optimizers(registry))
    /\ calls' = [calls EXCEPT ![c].pc = "done"]
    /\ UNCHANGED <<registry, objects, package, request_vars, vrp_vars>>

\* a caller removes an entry of the list it was given
MutateListing(i) ==
    /\ i \in 1..Len(listings)
    /\ \E k \in listings[i].items :
         /\ listings' = [listings EXCEPT ![i].items = @ \ {k}]
         /\ registry' = IF listings[i].of_registry
                        THEN [t \in DOMAIN registry \ {k} |-> registry[t]]
                        ELSE registry
    /\ UNCHANGED <<calls, objects, package, request_vars, vrp_vars>>

FactoryNext ==
    \/ \E c \in CallIds : CallValidate(c)
    \/ \E c \in CallIds : CallGetOptimizer(c)
    \/ \E c \in CallIds : CallCreateModel(c)
    \/ \E c \in CallIds : CallSolve(c)
    \/ \E c \in CallIds : CallListOptimizers(c)
    \/ \E i \in 1..MaxCalls : MutateListing(i)

FactorySpec == FactoryInit /\ [][FactoryNext]_vars

-----------------------------------------------------------------------------
(* vehicle-routing/core/solver.py: VRPSolver *)

MaxLocations == 3

\* three points whose pairwise distances are whole numbers (3, 4, 5)
Points == {<<0, 0>>, <<0, 4>>, <<3, 4>>}

VehicleCounts == {1, 2}

\* a demand of 3 exceeds the smaller capacity
DemandValues == {0, 2, 3}

VehicleCapacities == {2, 4}

\* range(self.num_locations)
Locations(inst) == DOMAIN inst.locations

Customers(inst) == Locations(inst) \ {inst.depot_idx}

Vehicles(inst) == 0..(inst.num_vehicles - 1)

\* math.sqrt on the squares that occur; the floor of the root otherwise
Sqrt(m) == CHOOSE r \in 0..m : r * r <= m /\ (r + 1) * (r + 1) > m

\* _compute_distance_matrix
compute_distance_matrix(locations) ==
    [i \in DOMAIN locations |-> [j \in DOMAIN locations |->
        IF i # j
        THEN Sqrt((locations[j][1] - locations[i][1]) * (locations[j][1] - locations[i][1])
                  + (locations[j][2] - locations[i][2]) * (locations[j][2] - locations[i][2]))
        ELSE 0]]

\* the arcs <<i, j, k>>, i # j, that carry a cost; a value of the binary
\* variables x is the set of the arcs with x[i, j, k] = 1
Arcs(inst) ==
    {<<i, j, k>> : i \in Locations(inst), j \in Locations(inst), k \in Vehicles(inst)}
        \cap {a \in Locations(inst) \X Locations(inst) \X Vehicles(inst) : a[1] # a[2]}

InArcs(x, h, k) == {a \in x : a[2] = h /\ a[3] = k}

OutArcs(x, h, k) == {a \in x : a[1] = h /\ a[3] = k}

\* model.setObjective: the sum of dist_matrix[i, j] * x[i, j, k]
ObjVal(inst, x) ==
    LET dist_matrix == compute_distance_matrix(inst.locations)
    IN SumOver(x, [a \in x |-> dist_matrix[a[1]][a[2]]])

\* "each customer must be visited exactly once"
VisitedOnce(inst, x) ==
    \A j \in Customers(inst) : Cardinality({a \in x : a[2] = j}) = 1

\* a slip: the flow conservation constraints left out
FlowUnconstrained(inst, x) == TRUE

\* "flow conservation": what enters a node with vehicle k leaves it with k
FlowConserved(inst, x) ==
    \A k \in Vehicles(inst) : \A h \in Locations(inst) :
        Cardinality(InArcs(x, h, k)) = Cardinality(OutArcs(x, h, k))

\* "all vehicles start and end at the depot": at most one arc out, one in
DepotOnce(inst, x) ==
    \A k \in Vehicles(inst) :
        /\ Cardinality(OutArcs(x, inst.depot_idx, k)) <= 1
        /\ Cardinality(InArcs(x, inst.depot_idx, k)) <= 1

\* the constraints on u[., k] for the values u of the customers (u of the
\* depot is 0 and occurs in no other constraint)
LoadsFit(inst, x, k, u) ==
    /\ \A i \in Customers(inst) : inst.demands[i] <= u[i] /\ u[i] <= inst.capacity
    /\ \A i \in Customers(inst) : \A j \in Customers(inst) \ {i} :
          u[j] >= u[i] + inst.demands[j]
                  - inst.capacity * (IF <<i, j, k>> \in x THEN 0 ELSE 1)

\* demands are whole, so values of u exist iff whole ones do
LoadsExist(inst, x) ==
    \A k \in Vehicles(inst) :
        \E u \in [Customers(inst) -> 0..inst.capacity] : LoadsFit(inst, x, k, u)

\* x (with some u) satisfies every constraint added in solve()
SatisfiesRoutingModel(inst, x) ==
    /\ VisitedOnce(inst, x)
    /\ DepotOnce(inst, x)
    /\ FlowConserved(inst, x)
    /\ LoadsExist(inst, x)

\* the arc sets with one arc into each customer and at most one into the
\* depot per vehicle: every x that satisfies the model is among them
CandidateArcSets(inst) ==
    LET into == [Customers(inst) -> Locations(inst) \X Vehicles(inst)]
        back == [Vehicles(inst) -> Customers(inst) \cup {inst.depot_idx}]
    IN {{<<f[j][1], j, f[j][2]>> : j \in {c \in Customers(inst) : f[c][1] # c}}
          \cup {<<b[k], inst.depot_idx, k>> :
                    k \in {v \in Vehicles(inst) : b[v] # inst.depot_idx}} :
        f \in {g \in into : \A c \in Customers(inst) : g[c][1] # c}, b \in back}

FeasibleArcSets(inst) == {x \in CandidateArcSets(inst) : SatisfiesRoutingModel(inst, x)}

\* model.optimize(): OPTIMAL comes with a cheapest x that satisfies the model
OptimalArcSets(inst) ==
    LET feasible == FeasibleArcSets(inst)
        best == CHOOSE v \in {ObjVal(inst, x) : x \in feasible} :
                    \A x \in feasible : v <= ObjVal(inst, x)
    IN IF feasible = {} THEN {} ELSE {x \in feasible : ObjVal(inst, x) = best}

\* the first j # current with x[current, j, k].x > 0.5, None without one
NextStop(inst, x, current, k) ==
    LET stops == {j \in Locations(inst) : j # current /\ <<current, j, k>> \in x}
    IN IF stops = {} THEN None
       ELSE <<CHOOSE j \in stops : \A other \in stops : j <= other>>

\* the `while True` loop of the route extraction; it ends within
\* num_locations steps for an x that satisfies the model, `fuel` cuts the
\* walk for any other x
RECURSIVE FollowRoute(_, _, _, _, _)
FollowRoute(inst, x, k, route, fuel) ==
    LET next_stop == NextStop(inst, x, route[Len(route)], k)
    IN IF fuel = 0 \/ IsNone(next_stop) THEN route
       ELSE IF Num(next_stop) = inst.depot_idx THEN Append(route, inst.depot_idx)
       ELSE FollowRoute(inst, x, k, Append(route, Num(next_stop)), fuel - 1)

\* routes[k], [] for a vehicle that visits no customer
VehicleRoute(inst, x, k) ==
    LET route == FollowRoute(inst, x, k, <<inst.depot_idx>>,
                             Cardinality(Locations(inst)) + 1)
    IN IF Len(route) > 2 THEN route ELSE <<>>

\* routes = [r for r in routes if r]
ExtractRoutes(inst, x) ==
    SelectSeq([i \in 1..inst.num_vehicles |-> VehicleRoute(inst, x, i - 1)],
              LAMBDA r : r # <<>>)

\* a slip: range(len(route) - 2), the arc back to the depot left out
RouteDistanceWithoutReturn(dist_matrix, route) ==
    SumOver(1..(Len(route) - 2),
            [i \in 1..(Len(route) - 2) |-> dist_matrix[route[i]][route[i + 1]]])

RouteDistance(dist_matrix, route) ==
    SumOver(1..(Len(route) - 1),
            [i \in 1..(Len(route) - 1) |-> dist_matrix[route[i]][route[i + 1]]])

TotalDistance(dist_matrix, routes) ==
    SumOver(1..Len(routes), [r \in 1..Len(routes) |-> RouteDistance(dist_matrix, routes[r])])

\* VRPSolver.solve, after model.optimize()
VrpSolution(inst, e) ==
    CASE e.status = "OPTIMAL" ->
            [routes |-> ExtractRoutes(inst, e.x),
             total_distance |-> TotalDistance(compute_distance_matrix(inst.locations),
                                              ExtractRoutes(inst, e.x)),
             status |-> "Optimal"]
      [] e.status = "GurobiError" ->
            [routes |-> <<>>, total_distance |-> 0, status |-> "Error: GurobiError"]
      [] OTHER ->
            [routes |-> <<>>, total_distance |-> 0, status |-> "No solution found"]

\* what the engine may do with the routing model
VrpEngineOutcomes(inst) ==
    {[status |-> "OPTIMAL", x |-> x] : x \in OptimalArcSets(inst)}
    \cup (IF FeasibleArcSets(inst) = {} THEN {[status |-> "INFEASIBLE"]} ELSE {})
    \cup {[status |-> st] : st \in {"GurobiError", "Exception"} \cup OtherStatuses}

-----------------------------------------------------------------------------
(* vehicle-routing/app.py and core/VRPSolverThread.py: one solve of the window *)

VrpInstances ==
    UNION {{[num_vehicles |-> nv, depot_idx |-> depot, locations |-> locs,
             demands |-> dem, capacity |-> cap] :
                nv \in VehicleCounts, depot \in 0..(n - 1),
                locs \in [0..(n - 1) -> Points],
                dem \in [0..(n - 1) -> DemandValues],
                cap \in VehicleCapacities} : n \in 2..MaxLocations}

\* validate_inputs: whether the input is accepted, and the demands left in
\* the table (the depot's demand is set to 0 when the user agrees to it)
validate_inputs(inst, reply) ==
    LET n == Cardinality(Locations(inst))
        demands == [inst.demands EXCEPT ![inst.depot_idx] = 0]
    IN IF n < 2 \/ ~(0 <= inst.depot_idx /\ inst.depot_idx < n)
          \/ inst.num_vehicles < 1 \/ inst.capacity <= 0
          \/ \E i \in Locations(inst) : inst.demands[i] < 0
       THEN [ok |-> FALSE, demands |-> inst.demands]
       ELSE IF inst.demands[inst.depot_idx] # 0 /\ reply # "Yes"
       THEN [ok |-> FALSE, demands |-> inst.demands]
       ELSE [ok |-> SumOver(Customers(inst), demands)
                        <= inst.num_vehicles * inst.capacity,
             demands |-> demands]

VrpInit ==
    /\ vrp_instance \in VrpInstances
    /\ solver_thread = "none"
    /\ vrp_engine = Blank
    /\ solution = Blank
    /\ window = [status_bar |-> "Ready"]
    /\ endpoint = Blank /\ optimizer_type = Blank /\ data = Blank /\ pc = Blank
    /\ validation = Blank /\ steps = <<>> /\ built = Blank /\ engine = Blank
    /\ result = Blank /\ verdict = Blank /\ response = Blank
    /\ registry = RegistryAtStartup
    /\ calls = Blank /\ objects = 0 /\ listings = <<>> /\ package = {}

\* solve_vrp: validate, then create and start the worker thread
solve_vrp ==
    /\ solver_thread = "none"
    /\ window.status_bar = "Ready"
    /\ \E reply \in {"Yes", "No"} :
         LET checked == validate_inputs(vrp_instance, reply)
         IN /\ vrp_instance' = [vrp_instance EXCEPT !.demands = checked.demands]
            /\ IF ~checked.ok
               THEN /\ window' = [status_bar |-> "Invalid Input"]
                    /\ solver_thread' = solver_thread
               ELSE /\ solver_thread' = "running"
                    /\ window' = [status_bar |-> "Optimization in progress..."]
    /\ UNCHANGED <<vrp_engine, solution, request_vars, registry, factory_vars>>

\* VRPSolverThread.run: solver.solve() returns (or raises) in the worker
RunSolver ==
    /\ solver_thread = "running"
    /\ vrp_engine = Blank
    /\ \E e \in VrpEngineOutcomes(vrp_instance) :
         /\ vrp_engine' = e
         /\ solution' = IF e.status = "Exception" THEN solution
                        ELSE VrpSolution(vrp_instance, e)
    /\ UNCHANGED <<vrp_instance, solver_thread, window, request_vars, registry,
                   factory_vars>>

\* VRPSolverThread.run: finished.emit(solution) or error.emit(str(e)), and
\* the slot of the window it is connected to
EmitResult ==
    /\ solver_thread = "running"
    /\ vrp_engine # Blank
    /\ solver_thread' = "finished"
    /\ window' = IF vrp_engine.status = "Exception"
                 THEN [status_bar |-> "Optimization error", error |-> "Exception"]
                 ELSE [status_bar |-> IF solution.status = "Optimal"
                                      THEN "Optimization completed successfully"
                                      ELSE "Optimization failed",
                       delivered |-> solution]
    /\ UNCHANGED <<vrp_instance, vrp_engine, solution, request_vars, registry,
                   factory_vars>>

\* cancel_solving: the Cancel button of the loading overlay
cancel_solving ==
    /\ solver_thread = "running"
    /\ solver_thread' = "terminated"
    /\ window' = [status_bar |-> "Optimization cancelled"]
    /\ UNCHANGED <<vrp_instance, vrp_engine, solution, request_vars, registry,
                   factory_vars>>

VrpNext ==
    \/ solve_vrp
    \/ RunSolver
    \/ EmitResult
    \/ cancel_solving

VrpSpec == VrpInit /\ [][VrpNext]_vars

-----------------------------------------------------------------------------
(* Properties *)

Validated == Has(validation, "exc") /\ validation.exc = "none" /\ validation.valid

Rejected == Has(validation, "exc") /\ validation.exc = "none" /\ ~validation.valid

ValidatorRaised == Has(validation, "exc") /\ validation.exc # "none"

\* optimize() has returned an envelope (or the handler has answered with it)
Returned == pc \in {"rejected", "returned"} \/ (pc = "responded" /\ ~ValidatorRaised)

\* C1: a request the validator rejects gets the validation_error envelope
\* carrying the validator's own error list, and neither get_optimizer nor an
\* optimizer class nor solve is reached for it.
C1_RejectionShortCircuits ==
    Rejected =>
        /\ pc \in {"rejected", "responded"}
        /\ result = [status |-> "validation_error",
                     solver_message |-> "Input validation failed",
                     validation_errors |-> validate_optimization_input(data).errors]
        /\ steps = <<"validate_optimization_input">>
        /\ built = Blank
        /\ engine = Blank

C1_Witness ==
    /\ pc = "responded"
    /\ Rejected
    /\ Len(result.validation_errors) >= 2
    /\ optimizer_type = "genetic"

ViolationKinds ==
    {"usage exceeds available capacity",
     "violates minimum demand constraint", "violates maximum demand constraint",
     "violates minimum total constraint", "violates maximum total constraint"}

HasViolation(warnings) == \E i \in 1..Len(warnings) : warnings[i][1] \in ViolationKinds

\* C2: after an optimal solve the status becomes solution_warning exactly
\* when the verifier reports a capacity, demand-bound or total-bound
\* violation; with numeric warnings only, they are attached and the status
\* stays optimal.
C2_DowngradeOnlyOnViolation ==
    (Returned /\ Has(verdict, "warnings")) =>
        /\ result.status = "solution_warning" <=> HasViolation(verdict.warnings)
        /\ (verdict.warnings # <<>> /\ ~HasViolation(verdict.warnings)) =>
              /\ result.status = "optimal"
              /\ Has(result, "feasibility_warnings")
              /\ result.feasibility_warnings = verdict.warnings

\* C3: a validated body posted to /optimize/<type> with an unregistered
\* identifier is answered with status unknown_optimizer and code 400.
C3_UnknownOptimizerIs400 ==
    (pc = "responded" /\ endpoint = "/optimize/<optimizer_type>" /\ Validated
        /\ ~Has(registry, optimizer_type)) =>
        /\ response.body.status = "unknown_optimizer"
        /\ response.code = 400

\* C4: on all three endpoints a validation_error result is answered with
\* 400, and optimal, solution_warning, infeasible and unbounded with 200.
C4_StatusToHttpCode ==
    (pc = "responded" /\ ~ValidatorRaised) =>
        /\ response.body = result
        /\ result.status = "validation_error" => response.code = 400
        /\ result.status \in {"optimal", "solution_warning", "infeasible", "unbounded"}
              => response.code = 200

C4_Witness ==
    /\ pc = "responded"
    /\ endpoint = "/demand-constrained"
    /\ ~ValidatorRaised
    /\ result.status = "infeasible"
    /\ response.code = 200

\* the solve ended with an engine error: a status other than optimal,
\* infeasible, unbounded, or an exception raised while building or solving
EngineError ==
    \/ Has(engine, "status") /\ engine.status \in OtherStatuses \cup {"raised"}
    \/ Has(engine, "status") /\ engine.status = "INFEASIBLE" /\ engine.iis_raises
    \/ steps # <<>> /\ steps[Len(steps)] = "solve" /\ built = Blank

\* C5: a solve that ends with an engine error is answered with code 500.
C5_EngineErrorIs500 ==
    (pc = "responded" /\ EngineError) => response.code = 500

\* C6: on every POST endpoint an exception that leaves optimize() is
\* answered with the envelope {status: error, solver_message: <message>}
\* and code 500.
C6_EscapedExceptionEnvelope ==
    (pc = "responded" /\ ValidatorRaised /\ Escapes(validation.exc)) =>
        /\ response.body = ErrorEnvelope(validation.exc)
        /\ response.code = 500

\* C7: the validator never raises: for every body it returns a pair.
C7_ValidatorNeverRaises ==
    Has(validation, "exc") => validation.exc = "none"

NonNegative(row, field) == Has(row, field) /\ row[field] >= 0

\* a bound that may be left out or null: non-negative when given
BoundOk(row, k) == Given(row, k) => Num(row[k]) >= 0

BoundsOrdered(row, lo, hi) ==
    (Given(row, lo) /\ Given(row, hi)) => Num(row[lo]) <= Num(row[hi])

AllRows(rows, P(_)) == \A i \in 1..Len(rows) : P(rows[i])

\* the rules C8 lists, read off the request alone
MeetsRules(d) ==
    /\ \A f \in {"objective", "products", "resources", "resource_usage"} : Has(d, f)
    /\ d.objective \in {"maximize_profit", "minimize_cost"}
    /\ AllRows(d.products, LAMBDA p :
          /\ Has(p, "name")
          /\ NonNegative(p, "profit_per_unit")
          /\ NonNegative(p, "cost_per_unit"))
    /\ AllRows(d.resources, LAMBDA r :
          Has(r, "name") /\ NonNegative(r, "available_capacity"))
    /\ AllRows(d.resource_usage, LAMBDA ru :
          /\ Has(ru, "product_name") /\ ru.product_name \in NamesOf(d.products)
          /\ Has(ru, "resource_name") /\ ru.resource_name \in NamesOf(d.resources)
          /\ NonNegative(ru, "usage_per_unit"))
    /\ \A n \in NamesOf(d.products) :
          \E i \in 1..Len(d.resource_usage) :
              Has(d.resource_usage[i], "product_name")
              /\ d.resource_usage[i].product_name = n
    /\ Has(d, "demand_constraints") =>
          AllRows(d.demand_constraints, LAMBDA dc :
              /\ Has(dc, "product_name") /\ dc.product_name \in NamesOf(d.products)
              /\ BoundOk(dc, "min_demand") /\ BoundOk(dc, "max_demand")
              /\ BoundsOrdered(dc, "min_demand", "max_demand"))
    /\ Has(d, "total_constraints") =>
          /\ BoundOk(d.total_constraints, "min_total")
          /\ BoundOk(d.total_constraints, "max_total")
          /\ BoundsOrdered(d.total_constraints, "min_total", "max_total")

\* C8: the validator returns valid, with an empty list, exactly for the
\* requests that meet all the listed rules.
C8_ValidIffRules ==
    Has(validation, "exc") =>
        ((validation.exc = "none" /\ validation.valid /\ validation.errors = <<>>)
            <=> MeetsRules(data))

Distinct(rows, field) ==
    \A i, j \in 1..Len(rows) :
        (i # j /\ Has(rows[i], field) /\ Has(rows[j], field))
            => rows[i][field] # rows[j][field]

\* C9: an accepted request has pairwise distinct product names and pairwise
\* distinct resource names.
C9_AcceptedNamesUnique ==
    Validated => Distinct(data.products, "name") /\ Distinct(data.resources, "name")

\* P1 of the design, read off the request and the reported plan
PlanWithinRequest(plan, d) ==
    LET usage == UsageDict(d.resource_usage)
    IN /\ \A p \in DOMAIN plan : plan[p] >= 0
       /\ AllRows(d.resources, LAMBDA r :
             SumOver(DOMAIN plan, [p \in DOMAIN plan |-> UsageOf(usage, p, r.name) * plan[p]])
                <= r.available_capacity + epsilon)
       /\ Has(d, "demand_constraints") =>
             AllRows(d.demand_constraints, LAMBDA dc :
                /\ Given(dc, "min_demand") => plan[dc.product_name] >= Num(dc.min_demand) - epsilon
                /\ Given(dc, "max_demand") => plan[dc.product_name] <= Num(dc.max_demand) + epsilon)
       /\ Has(d, "total_constraints") =>
             /\ Given(d.total_constraints, "min_total") =>
                   SumOver(DOMAIN plan, plan) >= Num(d.total_constraints.min_total) - epsilon
             /\ Given(d.total_constraints, "max_total") =>
                   SumOver(DOMAIN plan, plan) <= Num(d.total_constraints.max_total) + epsilon

\* C10: when the engine's solution satisfies the built model, the plan
\* reported by optimize() has no negative quantity, keeps every resource
\* within capacity + 1e-6 and meets every demand and total bound of the
\* request to within 1e-6.
C10_ReportedPlanWithinRequest ==
    (Returned /\ Has(result, "production_plan") /\ SatisfiesModel(built, engine.x))
        => PlanWithinRequest(result.production_plan, data)

\* C11: in an optimal result total_production equals the sum of the values
\* of the reported production_plan to within 1e-9 (a fifth of the unit 5e-9).
C11_TotalIsSumOfReportedPlan ==
    (Returned /\ Has(result, "status") /\ result.status = "optimal") =>
        5 * Abs(result.total_production
                - SumOver(DOMAIN result.production_plan, result.production_plan)) <= 1

\* how many times location c occurs in the routes
Occurrences(routes, c) ==
    Cardinality({<<r, i>> \in (1..Len(routes)) \X (1..MaxLocations + 2) :
                    i <= Len(routes[r]) /\ routes[r][i] = c})

RouteLoad(inst, route) ==
    SumOver({i \in 1..Len(route) : route[i] # inst.depot_idx},
            [i \in 1..Len(route) |-> inst.demands[route[i]]])

\* C12: for an accepted routing instance (demands >= 0, depot demand 0,
\* total demand <= K*Q) solved with status Optimal, every customer occurs
\* exactly once in the returned routes, every route starts and ends at the
\* depot, and the demand carried on each route is at most Q.
C12_RoutesServeEveryCustomer ==
    (solution # Blank /\ solution.status = "Optimal") =>
        /\ \A c \in Customers(vrp_instance) : Occurrences(solution.routes, c) = 1
        /\ \A r \in 1..Len(solution.routes) :
              /\ solution.routes[r][1] = vrp_instance.depot_idx
              /\ solution.routes[r][Len(solution.routes[r])] = vrp_instance.depot_idx
              /\ RouteLoad(vrp_instance, solution.routes[r]) <= vrp_instance.capacity

\* the distance between two points of the plane
Euclid(p, q) == Sqrt((q[1] - p[1]) * (q[1] - p[1]) + (q[2] - p[2]) * (q[2] - p[2]))

\* the length of a route, read off the coordinates of its stops
RouteLength(locations, route) ==
    SumOver(1..(Len(route) - 1),
            [i \in 1..(Len(route) - 1) |->
                Euclid(locations[route[i]], locations[route[i + 1]])])

\* C13: total_distance of every result of VRPSolver.solve is the sum, over
\* the returned routes, of the distances of their consecutive arcs, and 0
\* when no route is returned.
C13_TotalDistanceIsSumOfRoutes ==
    solution # Blank =>
        /\ solution.total_distance =
              SumOver(1..Len(solution.routes),
                      [r \in 1..Len(solution.routes) |->
                          RouteLength(vrp_instance.locations, solution.routes[r])])
        /\ solution.routes = <<>> => solution.total_distance = 0

C13_Witness ==
    /\ solution # Blank
    /\ Len(solution.routes) = 2
    /\ Len(solution.routes[1]) = 3
    /\ solution.total_distance = 18

\* C15: a solve the engine ends as INFEASIBLE yields status infeasible with
\* the field infeasible_constraints, which is the non-empty list of the
\* constraint names flagged by the IIS or the sentinel "Unknown"; also when
\* the engine cannot produce the IIS.
C15_InfeasibleCarriesConstraints ==
    (Returned /\ Has(engine, "status") /\ engine.status = "INFEASIBLE") =>
        /\ result.status = "infeasible"
        /\ Has(result, "infeasible_constraints")
        /\ \/ result.infeasible_constraints = [sentinel |-> "Unknown"]
           \/ /\ Has(result.infeasible_constraints, "names")
              /\ result.infeasible_constraints.names # <<>>
              /\ Range(result.infeasible_constraints.names) = engine.iis

PlanFields == {"objective_value", "production_plan", "resource_utilization", "total_production"}

\* C16: every envelope optimize() returns has one of the six statuses and a
\* solver_message; the four plan fields are present exactly for optimal and
\* solution_warning, and validation_errors exactly for validation_error.
C16_EnvelopeShape ==
    Returned =>
        /\ Has(result, "status")
        /\ result.status \in {"optimal", "solution_warning", "infeasible", "unbounded",
                              "error", "validation_error"}
        /\ Has(result, "solver_message")
        /\ \A f \in PlanFields :
              Has(result, f) <=> result.status \in {"optimal", "solution_warning"}
        /\ Has(result, "validation_errors") <=> result.status = "validation_error"

C16_Witness ==
    /\ pc = "returned"
    /\ result.status = "solution_warning"
    /\ PlanFields \subseteq DOMAIN result
    /\ ~Has(result, "validation_errors")

\* C18: a body posted to /basic-optimization or /demand-constrained is
\* answered with the body and code that /optimize/basic or
\* /optimize/demand-constrained gives to the same run of the pipeline, an
\* exception raised by the pipeline included.
C18_AliasAnswersAsOptimize ==
    (pc = "responded" /\ endpoint \in {"/basic-optimization", "/demand-constrained"}) =>
        response = HttpResponse("/optimize/<optimizer_type>", ValidatorRaised,
                                validation.exc, result)

\* the order of the positions of a request; a failure skips ahead, towards
\* responded
Rank(position) ==
    CASE position = "received" -> 0
      [] position = "validating" -> 1
      [] position \in {"rejected", "raised", "lookup"} -> 2
      [] position = "building" -> 3
      [] position = "solving" -> 4
      [] position = "assembling" -> 5
      [] position = "verifying" -> 6
      [] position = "returned" -> 7
      [] position = "responded" -> 8

\* the steps of a request other than the two checks (the validator and the
\* verifier), which are functions of their arguments and always end
CallsAndAnswer == GetOptimizer \/ Build \/ Optimize \/ PrepareResult \/ Respond

\* C14: a request moves forward through received, validating, then rejected
\* or building, solving, assembling and possibly verifying, to responded:
\* building starts only after validation has succeeded, verifying only
\* after assembling, and every request eventually reaches responded: each
\* step moves it forward and, wherever the validator, the lookup, the
\* builder, the engine or the verifier leave it, a further step is possible
\* until it is answered.
C14_PipelineOrder ==
    [][/\ Rank(pc') > Rank(pc)
       /\ pc' = "validating" => pc = "received"
       /\ pc' = "rejected" => pc = "validating"
       /\ pc' \in {"lookup", "building", "solving", "assembling", "verifying"}
             => Validated'
       /\ pc' = "solving" => pc = "building"
       /\ pc' = "assembling" => pc = "solving"
       /\ pc' = "verifying" => pc = "assembling"
       /\ pc' \notin {"validating", "verifying", "responded"}
             => (ENABLED CallsAndAnswer)']_vars

C14_Witness ==
    /\ pc = "responded"
    /\ Len(steps) = 5
    /\ steps[4] = "solve"
    /\ steps[5] = "validate_solution_feasibility"

\* C17: after the initialisation of the factory module no interleaving of
\* optimize, get_optimizer and list_available_optimizers calls, failing ones
\* included, changes the registry, and neither does a change made to a list
\* that list_available_optimizers returned.
C17_RegistryReadOnly ==
    [][registry' = registry]_vars

C17_Witness ==
    /\ \E i \in 1..Len(listings) : listings[i].items # DOMAIN registry
    /\ \E c \in DOMAIN calls : calls[c].pc = "failed"

\* the objects a call works with
ObjectsOf(c) == {calls[c].optimizer, calls[c].model} \ {0}

\* C19: under any interleaving no optimizer instance and no engine model is
\* used by two requests: each call gets an instance of its own and each
\* solve a model of its own.
C19_NoSharedObjects ==
    \A c \in DOMAIN calls : \A other \in DOMAIN calls \ {c} :
        /\ ObjectsOf(c) \cap ObjectsOf(other) = {}
        /\ calls[c].model # 0 => calls[c].model # calls[c].optimizer

C19_Witness ==
    /\ DOMAIN calls # {}
    /\ \A c \in DOMAIN calls :
          /\ calls[c].op = "optimize" /\ calls[c].type = "basic"
          /\ calls[c].pc = "modelled"

\* C20: a solve that the caller cancels ends with an engine-error result
\* whose message is 'cancelled': once the solver thread has been stopped by
\* cancel_solving, a result with status 'error' and message 'cancelled' has
\* been delivered.
C20_CancelReportsCancelled ==
    solver_thread = "terminated" =>
        /\ Has(window, "delivered")
        /\ window.delivered.status = "error"
        /\ window.delivered.message = "cancelled"

\* the verifier has been called for the request
VerifierCalled ==
    \E i \in 1..Len(steps) : steps[i] = "validate_solution_feasibility"

\* C21: optimize() calls the feasibility verifier only when the assembled
\* status is optimal; a result assembled as infeasible, unbounded or error
\* is returned as the assembler made it, with its status unchanged and
\* without a feasibility_warnings field.
C21_VerifierOnlyAfterOptimal ==
    /\ (VerifierCalled \/ verdict # Blank) =>
          /\ Has(engine, "status")
          /\ engine.status # "raised"
          /\ prepare_result(built, engine, extract_common_data(data)).status = "optimal"
    /\ (Returned /\ Validated /\ Has(engine, "status") /\ engine.status # "raised"
           /\ prepare_result(built, engine, extract_common_data(data)).status
                 \in {"infeasible", "unbounded", "error"}) =>
          /\ result = prepare_result(built, engine, extract_common_data(data))
          /\ ~Has(result, "feasibility_warnings")
          /\ ~VerifierCalled
          /\ verdict = Blank

C21_Witness ==
    /\ pc = "responded"
    /\ Validated
    /\ Has(engine, "status") /\ engine.status = "UNBOUNDED"
    /\ result.status = "unbounded"
    /\ verdict = Blank

\* the bounds C22 states for a product, read off its demand constraint
StatedBounds(dc) ==
    LET lo == IF Given(dc, "min_demand")
              THEN (IF Num(dc.min_demand) > 0 THEN Num(dc.min_demand) ELSE 0)
              ELSE 0
        hi == IF Given(dc, "max_demand") THEN dc.max_demand ELSE Infinity
    IN [lb |-> lo, ub |-> IF hi # Infinity /\ lo > Num(hi) THEN <<lo>> ELSE hi]

\* C22: for every product and every demand constraint, accepted by the
\* validator or not, the variable is created with lb = max(0, min_demand)
\* when min_demand is given, else 0, and ub = max_demand when given, else
\* infinite, ub being set to lb when lb > ub; so lb <= ub for every variable.
C22_VariableBounds ==
    pc = "created" =>
        \A p \in DOMAIN built.vars :
            /\ built.vars[p] = IF Has(DemandDict(data), p)
                               THEN StatedBounds(DemandDict(data)[p])
                               ELSE [lb |-> 0, ub |-> Infinity]
            /\ built.vars[p].lb >= 0
            /\ built.vars[p].ub # Infinity => built.vars[p].lb <= Num(built.vars[p].ub)

C22_Witness ==
    /\ pc = "created"
    /\ data.demand_constraints =
          <<[product_name |-> "A", min_demand |-> <<400>>, max_demand |-> <<3>>]>>
    /\ built.vars["A"] = [lb |-> 400, ub |-> <<400>>]

\* total bound k of the request is present, non-null and strictly positive
TotalStated(d, k) ==
    /\ Has(d, "total_constraints")
    /\ Has(d.total_constraints, k)
    /\ d.total_constraints[k] # None
    /\ Num(d.total_constraints[k]) > 0

TotalConstrs(m, name) ==
    SelectSeq(m.constrs, LAMBDA constr : constr.name = name)

\* C23: the built model holds min_total_production (sum of all x_p >=
\* min_total) exactly when min_total is present, non-null and strictly
\* positive, max_total_production (sum of all x_p <= max_total) exactly when
\* max_total is, and no other constraint beside the resource constraints.
C23_TotalConstraintsWhenPositive ==
    (Has(built, "constrs")) =>
        /\ TotalConstrs(built, "min_total_production") =
              IF TotalStated(data, "min_total")
              THEN <<[name |-> "min_total_production",
                      coef |-> [p \in DOMAIN built.vars |-> 1],
                      sense |-> ">=",
                      rhs |-> Num(data.total_constraints.min_total)]>>
              ELSE <<>>
        /\ TotalConstrs(built, "max_total_production") =
              IF TotalStated(data, "max_total")
              THEN <<[name |-> "max_total_production",
                      coef |-> [p \in DOMAIN built.vars |-> 1],
                      sense |-> "<=",
                      rhs |-> Num(data.total_constraints.max_total)]>>
              ELSE <<>>
        /\ Len(built.constrs) = Len(KeyOrder(data.resources, "name"))
                                + Len(TotalConstrs(built, "min_total_production"))
                                + Len(TotalConstrs(built, "max_total_production"))

C23_Witness ==
    /\ Has(built, "constrs")
    /\ Has(data, "total_constraints")
    /\ data.total_constraints = [min_total |-> <<0>>, max_total |-> <<400>>]
    /\ ConstrNames(built) = {"resource_R", "max_total_production"}

\* the usage of resource r recomputed from a reported plan and the request
RecomputedUsage(d, plan, r) ==
    SumOver(DOMAIN plan,
            [p \in DOMAIN plan |-> UsageOf(UsageDict(d.resource_usage), p, r) * plan[p]])

CapacityOf(d, r) == RowDict(d.resources, "name")[r].available_capacity

CapacityWarning(r) == <<"usage exceeds available capacity", r>>

\* C24: for a result assembled as optimal, whatever plan the engine gave, the
\* verifier warns of a capacity violation of resource r exactly when the
\* usage recomputed from the production_plan exceeds capacity_r + 1e-6, and
\* then optimize() returns solution_warning with that warning among the
\* feasibility_warnings.
C24_CapacityViolationDowngrades ==
    (Returned /\ Has(verdict, "warnings")) =>
        \A r \in NamesOf(data.resources) :
            LET exceeds == RecomputedUsage(data, result.production_plan, r)
                              > CapacityOf(data, r) + epsilon
            IN /\ (CapacityWarning(r) \in Range(verdict.warnings)) <=> exceeds
               /\ exceeds =>
                     /\ result.status = "solution_warning"
                     /\ Has(result, "feasibility_warnings")
                     /\ CapacityWarning(r) \in Range(result.feasibility_warnings)

C24_Witness ==
    /\ pc = "responded"
    /\ Has(verdict, "warnings")
    /\ CapacityWarning("R") \in Range(verdict.warnings)
    /\ result.status = "solution_warning"
    /\ result.production_plan = [p \in {"A"} |-> 700]

\* the builder classes among the members of the modules present
FoundBuilders(modules) ==
    {cl \in UNION {Range(Members(m)) : m \in modules} : cl.builder}

\* C25: after start-up 'basic' resolves to the basic builder and
\* 'demand-constrained' to the demand-constrained builder, every builder
\* class found by discovery is registered under its class name without the
\* Optimizer suffix in lowercase-with-hyphens, discovery leaves the built-in
\* identifiers resolving to the same builders, and list_available_optimizers
\* returns exactly the registered identifiers.
C25_RegistryAfterStartup ==
    /\ pc \in {"started", "listed"} =>
          /\ registry["basic"] = "BasicProductionOptimizer"
          /\ registry["demand-constrained"] = "DemandConstrainedOptimizer"
          /\ \A cl \in FoundBuilders(package) : Has(registry, KebabType(cl.name))
          /\ \A t \in DOMAIN registry \ {"basic", "demand-constrained"} :
                \E cl \in FoundBuilders(package) :
                    t = KebabType(cl.name) /\ registry[t] = Join(cl.name)
    /\ pc = "listed" => listings[1].items = DOMAIN registry

\* the walk of the extraction loop for vehicle k, before the test on its length
Walk(inst, x, k) ==
    FollowRoute(inst, x, k, <<inst.depot_idx>>, Cardinality(Locations(inst)) + 1)

\* the loop has reached one of its two `break`s
LoopEnded(inst, x, k, route) ==
    \/ Len(route) > 1 /\ route[Len(route)] = inst.depot_idx
    \/ IsNone(NextStop(inst, x, route[Len(route)], k))

\* C26: for every arc assignment x that satisfies the visit-once, flow,
\* depot and MTZ constraints of the model, the route reconstruction of each
\* vehicle terminates, ends at the depot when the vehicle leaves the depot,
\* and holds no customer twice.
C26_RouteReconstruction ==
    (solver_thread = "running" /\ vrp_engine = Blank) =>
        \A x \in FeasibleArcSets(vrp_instance) : \A k \in Vehicles(vrp_instance) :
            LET route == Walk(vrp_instance, x, k)
            IN /\ LoopEnded(vrp_instance, x, k, route)
               /\ Len(route) > 1 => route[Len(route)] = vrp_instance.depot_idx
               /\ \A i \in 1..Len(route) : \A j \in (i + 1)..Len(route) :
                     route[i] = route[j] => (i = 1 /\ j = Len(route))

C26_Witness ==
    /\ solver_thread = "finished"
    /\ Has(vrp_engine, "x")
    /\ Cardinality(Locations(vrp_instance)) = 3
    /\ vrp_instance.depot_idx = 1
    /\ Walk(vrp_instance, vrp_engine.x, 0) = <<1, 0, 2, 1>>
    /\ solution.routes = <<(<<1, 0, 2, 1>>)>>

UnknownOptimizerOutcome ==
    Has(result, "solver_message")
    /\ result.solver_message = "Unknown optimizer type: " \o optimizer_type

\* C27: optimize() validates before it looks the optimizer up: a request
\* that is invalid and names an unregistered optimizer is answered with the
\* validation_error envelope, its validation_errors and code 400, never with
\* the unknown-optimizer outcome, which only a request that passed
\* validation gets.
C27_ValidationBeforeLookup ==
    /\ (pc = "responded" /\ ~Has(registry, optimizer_type) /\ ~MeetsRules(data)) =>
          /\ response.code = 400
          /\ Has(response.body, "status") /\ response.body.status = "validation_error"
          /\ Has(response.body, "validation_errors")
          /\ response.body.validation_errors # <<>>
          /\ ~UnknownOptimizerOutcome
    /\ UnknownOptimizerOutcome => Validated
    /\ \A i \in 1..Len(steps) :
          steps[i] = "get_optimizer" => (i > 1 /\ steps[1] = "validate_optimization_input")

TotalWarningKinds ==
    {"violates minimum total constraint", "violates maximum total constraint"}

\* the total bound k is one the verifier compares the plan with
TotalChecked(d, k) == HasTotals(d) /\ Given(d.total_constraints, k)

\* C28: builder and verifier agree on the total bounds of a validated
\* request, a bound of 0 included: each total bound the verifier checks is a
\* constraint of the built model, so a solution that satisfies the built
\* model is never downgraded because of a total-production bound.
C28_TotalBoundsAgree ==
    /\ (Validated /\ Has(built, "constrs")) =>
          /\ TotalChecked(data, "min_total") => "min_total_production" \in ConstrNames(built)
          /\ TotalChecked(data, "max_total") => "max_total_production" \in ConstrNames(built)
    /\ (Returned /\ Has(verdict, "warnings") /\ SatisfiesModel(built, engine.x)) =>
          \A i \in 1..Len(verdict.warnings) : verdict.warnings[i][1] \notin TotalWarningKinds

NoDemandConstraints(d) ==
    ~Has(d, "demand_constraints") \/ d.demand_constraints = <<>>

OptimizerClasses == {"BasicProductionOptimizer", "DemandConstrainedOptimizer"}

\* C29: for a validated request without demand constraints (the field
\* absent or empty) the basic and the demand-constrained optimizer build the
\* same model: the same variables with bounds [0, +infinity), the same
\* objective, the same resource and total constraints; the same engine
\* outcome then gives the same result, status and objective value included.
C29_SameModelWithoutDemand ==
    /\ (pc = "solving" /\ Validated /\ NoDemandConstraints(data)) =>
          /\ \A class \in OptimizerClasses : built = BuildModel(class, data)
          /\ \A p \in DOMAIN built.vars : built.vars[p] = [lb |-> 0, ub |-> Infinity]
    /\ (pc = "assembling" /\ Validated /\ NoDemandConstraints(data)) =>
          \A class \in OptimizerClasses :
              prepare_result(BuildModel(class, data), engine, extract_common_data(data))
                = prepare_result(built, engine, extract_common_data(data))

C29_Witness ==
    /\ pc = "assembling"
    /\ Validated
    /\ endpoint = "/demand-constrained"
    /\ Has(data, "demand_constraints") /\ data.demand_constraints = <<>>
    /\ engine.status = "OPTIMAL"
    /\ prepare_result(built, engine, extract_common_data(data)).objective_value = 400

\* arc a is a step of the route
OnRoute(a, route) ==
    \E i \in 1..(Len(route) - 1) : route[i] = a[1] /\ route[i + 1] = a[2]

\* C30: in an Optimal result every arc the model selected lies on the
\* returned route of its vehicle, so that total_distance is the objective
\* value of the model: no selected cycle avoids the depot, also when
\* customers have demand 0.
C30_SelectedArcsAreOnRoutes ==
    (Has(vrp_engine, "x") /\ Has(solution, "status") /\ solution.status = "Optimal") =>
        /\ \A a \in vrp_engine.x :
              /\ OnRoute(a, VehicleRoute(vrp_instance, vrp_engine.x, a[3]))
              /\ VehicleRoute(vrp_instance, vrp_engine.x, a[3]) \in Range(solution.routes)
        /\ solution.total_distance = ObjVal(vrp_instance, vrp_engine.x)

====
